---- MODULE Spec2Model ----
(***************************************************************************)
(* A model of the RSA form (rsa-encryption-app.tsx) and of its library     *)
(* (lib/rsa.ts): the base64 codec, the PEM framing of exported keys, the   *)
(* OAEP size guard of encryptWithPublicKey, the error handling of the two  *)
(* operations, and the three handlers of the form.                         *)
(*                                                                         *)
(* Representation.  A JavaScript string that carries text of the ASCII     *)
(* repertoire (PEM, base64) is a sequence of one-character strings.  A     *)
(* string that carries user text (the plaintext) is the sequence of its    *)
(* UTF-16 code units, as integers.  An ArrayBuffer is a sequence of bytes  *)
(* 0..255.  An Error message is the sequence of its words.  A call that    *)
(* may throw returns [ok |-> TRUE, value |-> v] or [ok |-> FALSE,          *)
(* error |-> e].                                                           *)
(*                                                                         *)
(* crypto.subtle is the platform's provider and not code of the            *)
(* repository: keys are records, the DER of a key is a short byte string   *)
(* naming it, and a ciphertext names the key and carries the data.         *)
(***************************************************************************)
EXTENDS Integers, Sequences, FiniteSets, TLC

VARIABLES
    keySize,        \* useState("2048")
    publicKeyPEM,   \* useState("")
    privateKeyPEM,  \* useState("")
    encryptText,    \* useState("")
    encryptedText,  \* useState("")
    decryptText,    \* useState("")
    decryptedText,  \* useState("")
    toast,          \* the notification shown by the most recent handler
    console,        \* what the most recent handler wrote with console.error
    calls,          \* the provider calls the most recent handler made
    generated,      \* the key pairs generateRSAKeyPair has returned so far
    inflight,       \* the calls of handleGenerateKeys that are awaiting the provider
    arg,            \* function harness: the arguments of the call under study
    ret             \* function harness: what the call returned or threw

formVars == <<keySize, publicKeyPEM, privateKeyPEM, encryptText, encryptedText,
              decryptText, decryptedText, toast, console, calls, generated,
              inflight>>
callVars == <<arg, ret>>
vars == <<keySize, publicKeyPEM, privateKeyPEM, encryptText, encryptedText,
          decryptText, decryptedText, toast, console, calls, generated, inflight,
          arg, ret>>

None == [none |-> TRUE]

Ok(v) == [ok |-> TRUE, value |-> v]

Throw(e) == [ok |-> FALSE, error |-> e]

Min(S) == CHOOSE x \in S : \A y \in S : x <= y

(***************************************************************************)
(* Base64 (window.btoa / window.atob)                                      *)
(***************************************************************************)
B64 ==
    << "A","B","C","D","E","F","G","H","I","J","K","L","M","N","O","P",
       "Q","R","S","T","U","V","W","X","Y","Z","a","b","c","d","e","f",
       "g","h","i","j","k","l","m","n","o","p","q","r","s","t","u","v",
       "w","x","y","z","0","1","2","3","4","5","6","7","8","9","+","/" >>

B64Chars == {B64[i] : i \in 1..64}

B64Index == [c \in B64Chars |-> (CHOOSE i \in 1..64 : B64[i] = c) - 1]

B64Value(c) == B64Index[c]

\* The sextet at 0-based position k of the bit string of `binary`, the missing
\* low bits of the last one zero.
Sextet(binary, k) ==
    LET n == Len(binary)
        q == k \div 4
        b1 == binary[3 * q + 1]
        b2 == IF 3 * q + 2 <= n THEN binary[3 * q + 2] ELSE 0
        b3 == IF 3 * q + 3 <= n THEN binary[3 * q + 3] ELSE 0
    IN CASE k % 4 = 0 -> b1 \div 4
         [] k % 4 = 1 -> (b1 % 4) * 16 + b2 \div 16
         [] k % 4 = 2 -> (b2 % 16) * 4 + b3 \div 64
         [] OTHER     -> b3 % 64

\* window.btoa on a binary string whose code units are all <= 255 (the only
\* strings arrayBufferToBase64 builds): 4 characters per 3 bytes, "=" padded.
btoa(binary) ==
    LET n == Len(binary)
        full == (4 * n + 2) \div 3      \* characters that carry bits
    IN [i \in 1..(4 * ((n + 2) \div 3)) |->
            IF i <= full THEN B64[Sextet(binary, i - 1) + 1] ELSE "="]

AsciiWhitespace == {" ", "\t", "\n", "\f", "\r"}

InvalidCharacterError ==
    [name |-> "InvalidCharacterError",
     message |-> <<"The", "string", "to", "be", "decoded", "is", "not",
                   "correctly", "encoded.">>]

\* The byte at 1-based position j of the bit string the sextets `s` spell.
ByteOfSextets(s, j) ==
    LET q == (j - 1) \div 3
        v(k) == B64Value(s[4 * q + k])
    IN CASE (j - 1) % 3 = 0 -> v(1) * 4 + v(2) \div 16
         [] (j - 1) % 3 = 1 -> (v(2) % 16) * 16 + v(3) \div 4
         [] OTHER           -> (v(3) % 4) * 64 + v(4)

\* window.atob, the forgiving-base64 decode: ASCII whitespace is dropped, one or
\* two trailing "=" of a text whose length is a multiple of 4 are dropped, a
\* length of 1 mod 4 or a character outside the alphabet throws, and the bits
\* left over after the last whole byte are discarded.
atob(data) ==
    LET t == SelectSeq(data, LAMBDA c : c \notin AsciiWhitespace)
        n == Len(t)
        cut == IF n > 0 /\ n % 4 = 0
               THEN IF t[n] = "=" /\ t[n - 1] = "=" THEN 2
                    ELSE IF t[n] = "=" THEN 1 ELSE 0
               ELSE 0
        s == SubSeq(t, 1, n - cut)
        m == Len(s)
    IN IF m % 4 = 1 \/ \E i \in 1..m : s[i] \notin B64Chars
       THEN Throw(InvalidCharacterError)
       ELSE Ok([j \in 1..((6 * m) \div 8) |-> ByteOfSextets(s, j)])

\* String.fromCharCode over the bytes, then btoa.
arrayBufferToBase64(buffer) ==
    LET binary == [i \in 1..Len(buffer) |-> buffer[i]]
    IN btoa(binary)

\* atob, then charCodeAt over the binary string; atob's exception propagates.
base64ToArrayBuffer(base64) ==
    LET r == atob(base64)
    IN IF r.ok THEN Ok([i \in 1..Len(r.value) |-> r.value[i]]) ELSE r

(***************************************************************************)
(* PEM framing (exportPublicKeyToPEM, exportPrivateKeyToPEM,               *)
(* pemToArrayBuffer)                                                       *)
(***************************************************************************)
PUBLIC_KEY == <<"P","U","B","L","I","C"," ","K","E","Y">>

PRIVATE_KEY == <<"P","R","I","V","A","T","E"," ","K","E","Y">>

Dashes == <<"-","-","-","-","-">>

BEGIN == <<"B","E","G","I","N">>

END == <<"E","N","D">>

\* "-----BEGIN <label>-----" and "-----END <label>-----", without the newline
\* the export functions put after the one and before the other.
Delimiter(word, label) == Dashes \o word \o <<" ">> \o label \o Dashes

\* Characters per body line: the 64 of /.{1,64}/g.
LineWidth == 64

\* pemBody with /.{64}/g in place of /.{1,64}/g: a last line shorter than 64
\* characters is lost.
pemBodyFullLines(b64) ==
    LET lines == Len(b64) \div LineWidth
    IN IF lines = 0 THEN b64
       ELSE [i \in 1..(lines * (LineWidth + 1) - 1) |->
                IF i % (LineWidth + 1) = 0 THEN "\n"
                ELSE b64[i - i \div (LineWidth + 1)]]

\* b64.match(/.{1,64}/g)?.join("\n") || b64: lines of 64 characters joined by
\* "\n"; the empty text has no match and is kept as it is.
pemBody(b64) ==
    LET n == Len(b64)
    IN IF n = 0 THEN b64
       ELSE [i \in 1..(n + (n - 1) \div LineWidth) |->
                IF i % (LineWidth + 1) = 0 THEN "\n"
                ELSE b64[i - i \div (LineWidth + 1)]]

\* The text both export functions build from the exported DER.
toPEM(label, der) ==
    LET b64 == arrayBufferToBase64(der)
        pemHeader == Delimiter(BEGIN, label) \o <<"\n">>
        pemFooter == <<"\n">> \o Delimiter(END, label)
    IN pemHeader \o pemBody(b64) \o pemFooter

\* Whether `text` has `part` at position i.
HasAt(text, i, part) ==
    /\ i + Len(part) - 1 <= Len(text)
    /\ \A k \in 1..Len(part) : text[i + k - 1] = part[k]

\* The length of the match of /-----<word> [^-]+-----/ that starts at position
\* i of `text`, 0 when there is none: the prefix "-----<word> ", the longest run
\* of characters other than "-" (at least one), and five dashes.
MatchLen(text, i, prefix) ==
    LET from == i + Len(prefix)
        stops == {j \in from..Len(text) : text[j] = "-"}
    IN IF text[i] # "-" \/ ~HasAt(text, i, prefix) \/ stops = {} THEN 0
       ELSE LET j == Min(stops)
            IN IF j > from /\ HasAt(text, j, Dashes) THEN j + 5 - i ELSE 0

\* text.replace(/-----<word> [^-]+-----/, ""): the leftmost match removed, the
\* text unchanged when nothing matches.
removeDelimiter(text, word) ==
    LET prefix == Dashes \o word \o <<" ">>
        starts == {i \in 1..Len(text) : MatchLen(text, i, prefix) > 0}
    IN IF starts = {} THEN text
       ELSE LET i == Min(starts)
                n == MatchLen(text, i, prefix)
            IN SubSeq(text, 1, i - 1) \o SubSeq(text, i + n, Len(text))

\* The characters of the model's texts that /\s/ matches.
Whitespace == {" ", "\t", "\n", "\f", "\r"}

\* pemToArrayBuffer with the header pattern anchored (/^-----BEGIN [^-]+-----/):
\* a header that does not open the text stays in it.
pemToArrayBufferAnchored(pem) ==
    LET opened == MatchLen(pem, 1, Dashes \o BEGIN \o <<" ">>)
        rest == IF pem # <<>> /\ opened > 0 THEN SubSeq(pem, opened + 1, Len(pem)) ELSE pem
        b64 == SelectSeq(removeDelimiter(rest, END), LAMBDA c : c \notin Whitespace)
    IN base64ToArrayBuffer(b64)

\* pemToArrayBuffer: header, footer and whitespace removed, the rest decoded.
\* The label is dropped with the delimiters: only the bytes are returned.
pemToArrayBuffer(pem) ==
    LET b64 == SelectSeq(removeDelimiter(removeDelimiter(pem, BEGIN), END),
                         LAMBDA c : c \notin Whitespace)
    IN base64ToArrayBuffer(b64)

(***************************************************************************)
(* UTF-8 (TextEncoder.encode, TextDecoder.decode)                          *)
(***************************************************************************)
IsHighSurrogate(u) == u >= 55296 /\ u <= 56319     \* D800..DBFF

IsLowSurrogate(u) == u >= 56320 /\ u <= 57343      \* DC00..DFFF

REPLACEMENT == 65533                               \* U+FFFD

BOM == 65279                                       \* U+FEFF

\* The UTF-8 bytes of one code point.
Utf8Bytes(cp) ==
    IF cp < 128 THEN <<cp>>
    ELSE IF cp < 2048 THEN <<192 + cp \div 64, 128 + (cp % 64)>>
    ELSE IF cp < 65536
         THEN <<224 + cp \div 4096, 128 + ((cp \div 64) % 64), 128 + (cp % 64)>>
    ELSE <<240 + cp \div 262144, 128 + ((cp \div 4096) % 64),
           128 + ((cp \div 64) % 64), 128 + (cp % 64)>>

\* new TextEncoder().encode(message): the string is read as UTF-16, a
\* surrogate pair is one code point, and a surrogate without its partner is
\* encoded as U+FFFD.
RECURSIVE TextEncode(_)
TextEncode(message) ==
    IF message = <<>> THEN <<>>
    ELSE LET u == message[1]
         IN IF IsHighSurrogate(u) /\ Len(message) >= 2 /\ IsLowSurrogate(message[2])
            THEN Utf8Bytes(65536 + (u - 55296) * 1024 + (message[2] - 56320))
                    \o TextEncode(SubSeq(message, 3, Len(message)))
            ELSE IF IsHighSurrogate(u) \/ IsLowSurrogate(u)
            THEN Utf8Bytes(REPLACEMENT) \o TextEncode(Tail(message))
            ELSE Utf8Bytes(u) \o TextEncode(Tail(message))

\* The UTF-16 code units of one code point.
Utf16Units(cp) ==
    IF cp < 65536 THEN <<cp>>
    ELSE <<55296 + (cp - 65536) \div 1024, 56320 + ((cp - 65536) % 1024)>>

\* The UTF-8 decoder of the Encoding Standard in replacement mode, from byte i
\* on: `need` continuation bytes are outstanding for the code point `cp`, of
\* which `seen` have been read, and the next one must lie in lo..hi.  A byte that
\* cannot start or continue a sequence yields U+FFFD; a byte that breaks a
\* sequence is read again as the start of the next.
RECURSIVE Utf8Decode(_, _, _, _, _, _, _)
Utf8Decode(bytes, i, cp, need, seen, lo, hi) ==
    IF i > Len(bytes) THEN (IF need # 0 THEN <<REPLACEMENT>> ELSE <<>>)
    ELSE LET b == bytes[i]
         IN IF need = 0
            THEN IF b <= 127
                 THEN <<b>> \o Utf8Decode(bytes, i + 1, 0, 0, 0, 128, 191)
                 ELSE IF b >= 194 /\ b <= 223
                 THEN Utf8Decode(bytes, i + 1, b % 32, 1, 0, 128, 191)
                 ELSE IF b >= 224 /\ b <= 239
                 THEN Utf8Decode(bytes, i + 1, b % 16, 2, 0,
                                 IF b = 224 THEN 160 ELSE 128,
                                 IF b = 237 THEN 159 ELSE 191)
                 ELSE IF b >= 240 /\ b <= 244
                 THEN Utf8Decode(bytes, i + 1, b % 8, 3, 0,
                                 IF b = 240 THEN 144 ELSE 128,
                                 IF b = 244 THEN 143 ELSE 191)
                 ELSE <<REPLACEMENT>> \o Utf8Decode(bytes, i + 1, 0, 0, 0, 128, 191)
            ELSE IF b < lo \/ b > hi
                 THEN <<REPLACEMENT>> \o Utf8Decode(bytes, i, 0, 0, 0, 128, 191)
                 ELSE IF seen + 1 = need
                 THEN Utf16Units(cp * 64 + (b % 64))
                         \o Utf8Decode(bytes, i + 1, 0, 0, 0, 128, 191)
                 ELSE Utf8Decode(bytes, i + 1, cp * 64 + (b % 64), need, seen + 1, 128, 191)

\* new TextDecoder().decode(buffer): UTF-8, not fatal, ignoreBOM false.  A
\* leading EF BB BF is dropped; malformed input is replaced, never rejected.
TextDecode(buffer) ==
    LET start == IF Len(buffer) >= 3 /\ SubSeq(buffer, 1, 3) = <<239, 187, 191>>
                 THEN 4 ELSE 1
    IN Utf8Decode(buffer, start, 0, 0, 0, 128, 191)

(***************************************************************************)
(* The provider (crypto.subtle), as the library uses it                    *)
(***************************************************************************)
\* The digest sizes the provider itself works with; "SHA3-256" and "SHA3-512"
\* stand for hash names the switch of encryptWithPublicKey does not list.
DigestBytes(name) ==
    CASE name = "SHA-1" -> 20
      [] name = "SHA-256" -> 32
      [] name = "SHA-384" -> 48
      [] name = "SHA-512" -> 64
      [] name = "SHA3-256" -> 32
      [] name = "SHA3-512" -> 64

\* The messages a provider's exception may carry: none, the generic text of an
\* OperationError, and a text about the size of the input.
ProviderMessages ==
    { <<>>,
      <<"The", "operation", "failed", "for", "an", "operation-specific", "reason">>,
      <<"OperationError:", "Message", "is", "too", "long", "for", "modulus">> }

\* How the provider behaves while one handler runs: which of its operations, if
\* any, fails for a reason of the provider's own, and the message the
\* provider's exceptions carry.
ProviderOps == {"generateKey", "exportKey", "importKey", "encrypt", "decrypt"}

Envs == [fails : ProviderOps \cup {"none"}, message : ProviderMessages]

Calm == [fails |-> "none", message |-> <<>>]

\* One provider call and how it ended, as the call log keeps it.
Call(op, result) == [op |-> op, result |-> result]

\* The DER of a key: SEQUENCE, the structure (1 SubjectPublicKeyInfo, 2 PKCS#8
\* PrivateKeyInfo), the pair, and the modulus length in bytes.
FormatTag(format) == IF format = "spki" THEN 1 ELSE 2

\* crypto.subtle.exportKey(format, key)
exportKey(format, key) ==
    <<48, FormatTag(format), key.id,
      (key.algorithm.modulusLength \div 8) \div 256,
      (key.algorithm.modulusLength \div 8) % 256>>

\* crypto.subtle.importKey(format, binaryDer, {name: "RSA-OAEP", hash}, true,
\* usages): a DataError unless the bytes are a key structure of that format.
importKey(format, binaryDer, hash, usages, env) ==
    IF /\ env.fails # "importKey"
       /\ Len(binaryDer) = 5
       /\ binaryDer[1] = 48
       /\ binaryDer[2] = FormatTag(format)
       /\ binaryDer[3] >= 1
       /\ binaryDer[4] * 256 + binaryDer[5] >= 1
    THEN Ok([type |-> IF format = "spki" THEN "public" ELSE "private",
             id |-> binaryDer[3],
             algorithm |-> [name |-> "RSA-OAEP", hash |-> [name |-> hash],
                            modulusLength |-> 8 * (binaryDer[4] * 256 + binaryDer[5])],
             usages |-> usages])
    ELSE Throw([name |-> "DataError", message |-> env.message])

\* crypto.subtle.encrypt({name: "RSA-OAEP"}, key, data): one OAEP block.  An
\* OperationError when the data exceed what the modulus and the key's digest
\* leave room for.  The ciphertext names the pair and carries the data.
encrypt(key, data, env) ==
    LET room == key.algorithm.modulusLength \div 8
                    - 2 * DigestBytes(key.algorithm.hash.name) - 2
    IN IF env.fails = "encrypt" \/ Len(data) > room
       THEN Throw([name |-> "OperationError", message |-> env.message])
       ELSE Ok(<<key.id>> \o data)

\* crypto.subtle.decrypt({name: "RSA-OAEP"}, key, data): an OperationError
\* unless the data are a block made for this pair.
decrypt(key, data, env) ==
    IF env.fails # "decrypt" /\ Len(data) >= 1 /\ data[1] = key.id
    THEN Ok(Tail(data))
    ELSE Throw([name |-> "OperationError", message |-> env.message])

(***************************************************************************)
(* lib/rsa.ts: import, encrypt, decrypt                                    *)
(***************************************************************************)
\* What a library call hands back: its result, the provider calls it made and
\* what it wrote with console.error (one tuple of arguments per call).
Outcome(result, made, logged) == [result |-> result, calls |-> made, console |-> logged]

ImportOutcome(key) == Outcome(key, <<Call("importKey", key)>>, <<>>)

\* The rest of an import once pemToArrayBuffer has returned or thrown: the
\* provider is called only with bytes that decoded.
ImportDer(format, binaryDer, usages, env) ==
    IF ~binaryDer.ok THEN Outcome(binaryDer, <<>>, <<>>)
    ELSE ImportOutcome(importKey(format, binaryDer.value, "SHA-256", usages, env))

importPublicKey(pem, env) == ImportDer("spki", pemToArrayBuffer(pem), {"encrypt"}, env)

importPrivateKey(pem, env) == ImportDer("pkcs8", pemToArrayBuffer(pem), {"decrypt"}, env)

\* The switch without its case "SHA-384": the name falls through to the default.
hashLengthBytesNoSha384(name) ==
    CASE name = "SHA-1" -> 20
      [] name = "SHA-256" -> 32
      [] name = "SHA-512" -> 64
      [] OTHER -> 32

\* The switch on keyAlg.hash.name.
hashLengthBytes(name) ==
    CASE name = "SHA-1" -> 20
      [] name = "SHA-256" -> 32
      [] name = "SHA-384" -> 48
      [] name = "SHA-512" -> 64
      [] OTHER -> 32

\* modulusLength / 8 - 2 * hashLengthBytes - 2.  The modulus lengths of the
\* model are multiples of 8, so the quotient is the exact one.
maxMessageLength(keyAlg) ==
    keyAlg.modulusLength \div 8 - 2 * hashLengthBytes(keyAlg.hash.name) - 2

\* `Message is too long for the given key size. Maximum allowed is ${max}
\* bytes, but got ${actual} bytes.`
TooLongMessage(max, actual) ==
    <<"Message", "is", "too", "long", "for", "the", "given", "key", "size.",
      "Maximum", "allowed", "is", ToString(max), "bytes,", "but", "got",
      ToString(actual), "bytes.">>

EncryptionFailedMessage ==
    <<"Encryption", "failed.", "Please", "verify", "that", "you", "are", "using",
      "the", "correct", "public", "key", "and", "that", "your", "message", "is",
      "valid.">>

DecryptionFailedMessage ==
    <<"Decryption", "failed.", "Please", "verify", "that", "you", "are", "using",
      "the", "correct", "private", "key", "and", "that", "the", "ciphertext", "is",
      "valid.">>

NewError(message) == [name |-> "Error", message |-> message]

\* message.includes(phrase), on words.
Includes(message, phrase) ==
    \E i \in 1..(Len(message) - Len(phrase) + 1) : HasAt(message, i, phrase)

\* error.message.includes("Message is too long")
IsTooLong(error) == Includes(error.message, <<"Message", "is", "too", "long">>)

\* The end of the try block of encryptWithPublicKey: the provider has answered.
Encrypted(encrypted) ==
    IF encrypted.ok
    THEN Outcome(Ok(arrayBufferToBase64(encrypted.value)), <<Call("encrypt", encrypted)>>, <<>>)
    ELSE Outcome(encrypted, <<Call("encrypt", encrypted)>>, <<>>)

\* The size check with >= in place of >.
EncryptTryOffByOne(publicKey, data, max, env) ==
    IF Len(data) >= max
    THEN Outcome(Throw(NewError(TooLongMessage(max, Len(data)))), <<>>,
                 <<<<TooLongMessage(max, Len(data))>>>>)
    ELSE Encrypted(encrypt(publicKey, data, env))

\* The try block of encryptWithPublicKey, from the size check on.
EncryptTry(publicKey, data, max, env) ==
    IF Len(data) > max
    THEN Outcome(Throw(NewError(TooLongMessage(max, Len(data)))), <<>>,
                 <<<<TooLongMessage(max, Len(data))>>>>)
    ELSE Encrypted(encrypt(publicKey, data, env))

\* The catch block of encryptWithPublicKey: the error is logged; one whose
\* message includes "Message is too long" is thrown again as it is, any other
\* is replaced.
EncryptCatch(body) ==
    IF body.result.ok THEN body
    ELSE Outcome(IF IsTooLong(body.result.error) THEN body.result
                 ELSE Throw(NewError(EncryptionFailedMessage)),
                 body.calls,
                 body.console \o <<<<"Encryption error:", body.result.error>>>>)

encryptWithPublicKey(publicKey, message, env) ==
    EncryptCatch(EncryptTry(publicKey, TextEncode(message),
                            maxMessageLength(publicKey.algorithm), env))

\* The end of the try block of decryptWithPrivateKey: the provider has answered.
Decrypted(decrypted) ==
    IF decrypted.ok
    THEN Outcome(Ok(TextDecode(decrypted.value)), <<Call("decrypt", decrypted)>>, <<>>)
    ELSE Outcome(decrypted, <<Call("decrypt", decrypted)>>, <<>>)

\* The try block of decryptWithPrivateKey, once the ciphertext has been decoded
\* or atob has thrown.
DecryptTry(privateKey, data, env) ==
    IF ~data.ok THEN Outcome(data, <<>>, <<>>)
    ELSE Decrypted(decrypt(privateKey, data.value, env))

\* The catch block of decryptWithPrivateKey: the error is logged and replaced.
DecryptCatch(body) ==
    IF body.result.ok THEN body
    ELSE Outcome(Throw(NewError(DecryptionFailedMessage)),
                 body.calls,
                 <<<<"Decryption error:", body.result.error>>>>)

decryptWithPrivateKey(privateKey, ciphertext, env) ==
    DecryptCatch(DecryptTry(privateKey, base64ToArrayBuffer(ciphertext), env))

exportPublicKeyToPEM(publicKey) == toPEM(PUBLIC_KEY, exportKey("spki", publicKey))

exportPrivateKeyToPEM(privateKey) == toPEM(PRIVATE_KEY, exportKey("pkcs8", privateKey))

\* crypto.subtle.generateKey({name: "RSA-OAEP", modulusLength, publicExponent,
\* hash: "SHA-256"}, true, ["encrypt", "decrypt"]): the pair numbered `id`.
generateKey(modulusLength, id, env) ==
    LET algorithm == [name |-> "RSA-OAEP", hash |-> [name |-> "SHA-256"],
                      modulusLength |-> modulusLength]
    IN IF env.fails = "generateKey"
       THEN Throw([name |-> "OperationError", message |-> env.message])
       ELSE Ok([publicKey |-> [type |-> "public", id |-> id,
                               algorithm |-> algorithm, usages |-> {"encrypt"}],
                privateKey |-> [type |-> "private", id |-> id,
                                algorithm |-> algorithm, usages |-> {"decrypt"}]])

\* The rest of generateRSAKeyPair once the provider has answered.
Exported(keyPair) ==
    IF ~keyPair.ok THEN Outcome(keyPair, <<Call("generateKey", keyPair)>>, <<>>)
    ELSE Outcome(Ok([publicKey |-> keyPair.value.publicKey,
                     privateKey |-> keyPair.value.privateKey,
                     publicKeyPEM |-> exportPublicKeyToPEM(keyPair.value.publicKey),
                     privateKeyPEM |-> exportPrivateKeyToPEM(keyPair.value.privateKey)]),
                 <<Call("generateKey", keyPair)>>, <<>>)

\* generateRSAKeyPair has no catch: the provider's exception propagates.
generateRSAKeyPair(size, id, env) == Exported(generateKey(size, id, env))

(***************************************************************************)
(* The state of the form after construction, and the function harness      *)
(***************************************************************************)
FormInit ==
    /\ keySize = "2048"
    /\ publicKeyPEM = <<>>
    /\ privateKeyPEM = <<>>
    /\ encryptText = <<>>
    /\ encryptedText = <<>>
    /\ decryptText = <<>>
    /\ decryptedText = <<>>
    /\ toast = None
    /\ console = <<>>
    /\ calls = <<>>
    /\ generated = <<>>
    /\ inflight = <<>>

\* What the caller of pemToArrayBuffer holds afterwards: the bytes, or the
\* exception.
Unframed(pem) ==
    LET r == pemToArrayBuffer(pem)
    IN IF r.ok THEN [ok |-> TRUE, der |-> r.value] ELSE r

(***************************************************************************)
(* SpecPem: frame a DER byte string, unframe the text                      *)
(***************************************************************************)
MaxDerLen == 50

Labels == {PUBLIC_KEY, PRIVATE_KEY}

\* Byte strings of every length up to MaxDerLen: runs of one byte, and ramps
\* that pass through every residue.
DerSamples ==
    {[i \in 1..n |-> (s + i * t) % 256] :
        n \in 0..MaxDerLen, s \in {0, 250}, t \in {0, 1, 37}}

InitPem ==
    /\ FormInit
    /\ arg \in [label : Labels, der : DerSamples]
    /\ ret = None

FrameUnframe ==
    /\ ret = None
    /\ LET pem == toPEM(arg.label, arg.der)
       IN ret' = [pem |-> pem, unframed |-> Unframed(pem)]
    /\ UNCHANGED <<arg, formVars>>

NextPem == FrameUnframe

SpecPem == InitPem /\ [][NextPem]_vars

MaxEdits == 1

\* A ramp of n bytes.
Ramp(n) == [i \in 1..n |-> (250 + i * 37) % 256]

\* Texts whose body is empty, one short line, and two lines.
EditSamples ==
    { [label |-> PUBLIC_KEY, der |-> Ramp(0)],
      [label |-> PRIVATE_KEY, der |-> Ramp(2)],
      [label |-> PUBLIC_KEY, der |-> Ramp(MaxDerLen - 1)] }

\* The edited text: what precedes the header, the header, what lies between
\* header and footer, the footer, what follows it.
EditedText(a) ==
    a.pre \o Delimiter(BEGIN, a.label) \o a.mid \o Delimiter(END, a.label) \o a.post

InitEdit ==
    /\ FormInit
    /\ \E s \in EditSamples :
         LET pem == toPEM(s.label, s.der)
             h == Len(Delimiter(BEGIN, s.label))
             f == Len(Delimiter(END, s.label))
         IN arg = [label |-> s.label, der |-> s.der, edits |-> 0, pre |-> <<>>,
                   mid |-> SubSeq(pem, h + 1, Len(pem) - f), post |-> <<>>]
    /\ ret = None

InsertAt(text, p, c) == SubSeq(text, 1, p) \o <<c>> \o SubSeq(text, p + 1, Len(text))

\* Every "\n" that no "\r" precedes becomes "\r\n" (the last one first).
RECURSIVE ToCRLF(_)
ToCRLF(text) ==
    LET bare == {i \in 1..Len(text) : text[i] = "\n" /\ (i = 1 \/ text[i - 1] # "\r")}
    IN IF bare = {} THEN text
       ELSE LET b == CHOOSE x \in bare : \A y \in bare : y <= x
            IN ToCRLF(SubSeq(text, 1, b - 1)) \o <<"\r">> \o SubSeq(text, b, Len(text))

\* The text is pasted into a key field as it stands and unframed.
UnframeAsIs ==
    /\ ret = None
    /\ ret' = [pem |-> EditedText(arg), unframed |-> Unframed(EditedText(arg))]
    /\ UNCHANGED <<arg, formVars>>

\* A space, a tab or a line break is typed before the header, after the footer
\* or anywhere between the two, and the text is unframed.
InsertWhitespace ==
    /\ arg.edits < MaxEdits
    /\ \E part \in {"pre", "mid", "post"}, c \in {" ", "\t", "\n"} :
         \E p \in 0..Len(arg[part]) :
            LET a == [arg EXCEPT ![part] = InsertAt(@, p, c), !.edits = @ + 1]
            IN /\ arg' = a
               /\ ret' = [pem |-> EditedText(a), unframed |-> Unframed(EditedText(a))]
    /\ UNCHANGED formVars

\* The text passes through an editor that writes Windows line endings.
ConvertLineEndings ==
    /\ LET a == [arg EXCEPT !.pre = ToCRLF(@), !.mid = ToCRLF(@), !.post = ToCRLF(@)]
       IN /\ a # arg
          /\ arg' = a
          /\ ret' = [pem |-> EditedText(a), unframed |-> Unframed(EditedText(a))]
    /\ UNCHANGED formVars

NextEdit == UnframeAsIs \/ InsertWhitespace \/ ConvertLineEndings

SpecEdit == InitEdit /\ [][NextEdit]_vars

\* C9: a framed text in which line endings were replaced by CRLF, or spaces,
\* tabs or line breaks were inserted before the header, after the footer or
\* anywhere between the two, unframes to the bytes that were framed.
C9_EditedTextUnframes ==
    ret # None => ret.unframed.ok /\ ret.unframed.der = arg.der

\* A two-line text with CRLF line endings and one more inserted character has
\* been unframed to its bytes.
C9_Witness ==
    /\ ret # None
    /\ arg.edits = MaxEdits
    /\ Len(arg.der) = MaxDerLen - 1
    /\ Cardinality({i \in 1..Len(arg.mid) : arg.mid[i] = "\r"}) >= 3
    /\ ret.pem = EditedText(arg)
    /\ ret.unframed.ok
    /\ ret.unframed.der = arg.der

(***************************************************************************)
(* SpecEncrypt: encryptWithPublicKey on a key of any profile               *)
(***************************************************************************)
MaxMsgLen == 3

\* UTF-16 code units: "A", U+00E9, U+20AC, U+FEFF and the two halves of U+1F600.
CodeUnits == {65, 233, 8364, BOM, 55357, 56832}

Messages == UNION {[1..n -> CodeUnits] : n \in 0..MaxMsgLen}

HashNames == {"SHA-1", "SHA-256", "SHA-384", "SHA-512", "SHA3-256", "SHA3-512"}

\* The three sizes the form offers, and for each hash the modulus lengths
\* around the one that leaves no room at all.
ModulusLengths(name) ==
    {1024, 2048, 4096} \cup {8 * (2 * DigestBytes(name) + 2 + k) : k \in {-2, 0, 3}}

PublicKeys ==
    UNION {{[type |-> "public", id |-> 1,
             algorithm |-> [name |-> "RSA-OAEP", hash |-> [name |-> h],
                            modulusLength |-> m],
             usages |-> {"encrypt"}] : m \in ModulusLengths(h)} : h \in HashNames}

InitEncrypt ==
    /\ FormInit
    /\ arg \in [publicKey : PublicKeys, message : Messages,
                 env : {e \in Envs : e.fails \in {"none", "encrypt"}}]
    /\ ret = None

CallEncrypt ==
    /\ ret = None
    /\ ret' = [budget |-> maxMessageLength(arg.publicKey.algorithm),
               outcome |-> encryptWithPublicKey(arg.publicKey, arg.message, arg.env)]
    /\ UNCHANGED <<arg, formVars>>

NextEncrypt == CallEncrypt

SpecEncrypt == InitEncrypt /\ [][NextEncrypt]_vars

\* The budget as the claims state it.
Budget(bits, hashBytes) == bits \div 8 - 2 * hashBytes - 2

\* The error of the size check, for any pair of numbers: an Error whose message
\* opens with "Message is too long for the given key size.".
IsTooLargeError(error) ==
    /\ error.name = "Error"
    /\ Len(error.message) >= 9
    /\ SubSeq(error.message, 1, 9) = SubSeq(TooLongMessage(0, 0), 1, 9)

\* C1: when the UTF-8 length of the message exceeds the budget the call fails
\* with the too-large error carrying max = budget and actual = the length, and
\* the provider's encrypt is not called; when the length is within the budget
\* the too-large error is not raised.
C1_SizeGuard ==
    ret # None =>
        LET actual == Len(TextEncode(arg.message))
            budget == Budget(arg.publicKey.algorithm.modulusLength,
                             DigestBytes(IF arg.publicKey.algorithm.hash.name
                                               \in {"SHA-1", "SHA-256", "SHA-384", "SHA-512"}
                                         THEN arg.publicKey.algorithm.hash.name
                                         ELSE "SHA-256"))
        IN /\ actual > budget =>
                /\ ret.outcome.result = Throw(NewError(TooLongMessage(budget, actual)))
                /\ ret.outcome.calls = <<>>
           /\ actual <= budget =>
                \/ ret.outcome.result.ok
                \/ ~IsTooLargeError(ret.outcome.result.error)

\* A message of 4 bytes has been refused by a key whose budget is 3, without a
\* call of the provider.
C1_Witness ==
    /\ ret # None
    /\ ret.budget = 3
    /\ Len(TextEncode(arg.message)) = 4
    /\ ret.outcome.result = Throw(NewError(TooLongMessage(3, 4)))
    /\ ret.outcome.calls = <<>>

\* C2: the budget is modulusLength/8 - 2*hashBytes - 2 with hashBytes 20, 32,
\* 48, 64 for SHA-1, SHA-256, SHA-384, SHA-512 and 32 for any other name: 62,
\* 190 and 446 for SHA-256 with 1024, 2048 and 4096 bits; it is always a number,
\* which may be zero or negative.
C2_BudgetFormula ==
    ret # None =>
        LET name == arg.publicKey.algorithm.hash.name
            bits == arg.publicKey.algorithm.modulusLength
        IN /\ ret.budget \in Int
           /\ name = "SHA-1" => ret.budget = Budget(bits, 20)
           /\ name = "SHA-256" => ret.budget = Budget(bits, 32)
           /\ name = "SHA-384" => ret.budget = Budget(bits, 48)
           /\ name = "SHA-512" => ret.budget = Budget(bits, 64)
           /\ name \notin {"SHA-1", "SHA-256", "SHA-384", "SHA-512"} =>
                ret.budget = Budget(bits, 32)
           /\ name = "SHA-256" /\ bits = 1024 => ret.budget = 62
           /\ name = "SHA-256" /\ bits = 2048 => ret.budget = 190
           /\ name = "SHA-256" /\ bits = 4096 => ret.budget = 446

\* The budget of a 1024-bit key whose hash the switch does not list has been
\* computed with 32.
C2_Witness ==
    /\ ret # None
    /\ arg.publicKey.algorithm.hash.name = "SHA3-512"
    /\ arg.publicKey.algorithm.modulusLength = 1024
    /\ ret.budget = 62

\* C7: a failure of encryptWithPublicKey is either the too-large error of the
\* size check or the one generic encryption-failed error; a failure of the
\* provider is never thrown again as it came, whatever its message, so no text
\* of the provider reaches the caller.
C7_OnlyTwoErrors ==
    (ret # None /\ ~ret.outcome.result.ok) =>
        \/ ret.outcome.result.error = NewError(EncryptionFailedMessage)
        \/ /\ Len(TextEncode(arg.message)) > ret.budget
           /\ ret.outcome.result.error =
                NewError(TooLongMessage(ret.budget, Len(TextEncode(arg.message))))

(***************************************************************************)
(* The form (rsa-encryption-app.tsx)                                       *)
(***************************************************************************)
MaxKeys == 1

\* parseInt(keySize, 10) on the three values of the selector.
parseInt(text) ==
    CASE text = "1024" -> 1024
      [] text = "2048" -> 2048
      [] text = "4096" -> 4096

KeySizes == {"1024", "2048", "4096"}

\* toast({title}) and toast({title, description, variant: "destructive"})
Toast(title) == [title |-> title, description |-> <<>>, variant |-> "default"]

ErrorToast(title, description) ==
    [title |-> title, description |-> description, variant |-> "destructive"]

\* error.message || fallback
MessageOr(message, fallback) == IF message = <<>> THEN fallback ELSE message

HandlerEnvs(ops) == {e \in Envs : e.fails \in ops \cup {"none"}}

\* A field is edited: the toast of the last handler is gone, and the logs of the
\* last handler are no longer kept.
Dismiss == toast' = None /\ console' = <<>> /\ calls' = <<>>

setKeySize(value) ==
    /\ value # keySize
    /\ keySize' = value
    /\ Dismiss
    /\ UNCHANGED <<publicKeyPEM, privateKeyPEM, encryptText, encryptedText,
                   decryptText, decryptedText, generated, arg, ret, inflight>>

setEncryptText(value) ==
    /\ value # encryptText
    /\ encryptText' = value
    /\ Dismiss
    /\ UNCHANGED <<keySize, publicKeyPEM, privateKeyPEM, encryptedText,
                   decryptText, decryptedText, generated, arg, ret, inflight>>

setPrivateKeyPEM(value) ==
    /\ value # privateKeyPEM
    /\ privateKeyPEM' = value
    /\ Dismiss
    /\ UNCHANGED <<keySize, publicKeyPEM, encryptText, encryptedText,
                   decryptText, decryptedText, generated, arg, ret, inflight>>

setDecryptText(value) ==
    /\ value # decryptText
    /\ decryptText' = value
    /\ Dismiss
    /\ UNCHANGED <<keySize, publicKeyPEM, privateKeyPEM, encryptText,
                   encryptedText, decryptedText, generated, arg, ret, inflight>>

\* A handler's try block as one library outcome: the second call is made with
\* the value of the first, and not at all when the first threw.
Then(first, second) ==
    IF first.result.ok
    THEN Outcome(second.result, first.calls \o second.calls, first.console \o second.console)
    ELSE first

\* A handler's catch block: console.error(label, error), and the destructive
\* toast with error.message || fallback.
Caught(out, label, title, fallback) ==
    [toast |-> ErrorToast(title, MessageOr(out.result.error.message, fallback)),
     console |-> out.console \o <<<<label, out.result.error>>>>]

\* The whole handler: the provider's promise settles and the fields are set.
handleGenerateKeys(env) ==
    /\ Len(generated) < MaxKeys
    /\ \E keys \in {generateRSAKeyPair(parseInt(keySize), Len(generated) + 1, env)} :
         /\ calls' = keys.calls
         /\ IF keys.result.ok
            THEN /\ publicKeyPEM' = keys.result.value.publicKeyPEM
                 /\ privateKeyPEM' = keys.result.value.privateKeyPEM
                 /\ generated' = Append(generated, keys.result.value)
                 /\ toast' = Toast("Keys generated successfully")
                 /\ console' = keys.console
            ELSE /\ UNCHANGED <<publicKeyPEM, privateKeyPEM, generated>>
                 /\ \E c \in {Caught(keys, "Key generation failed:", "Key Generation Error",
                                     <<"Error", "generating", "keys">>)} :
                       toast' = c.toast /\ console' = c.console
    /\ UNCHANGED <<keySize, encryptText, encryptedText, decryptText, decryptedText,
                   arg, ret, inflight>>

\* importPublicKey, then encryptWithPublicKey with the key it returned.
EncryptClick(pem, text, env) ==
    LET publicKey == importPublicKey(pem, env)
    IN Then(publicKey, encryptWithPublicKey(publicKey.result.value, text, env))

handleEncrypt(env) ==
    /\ \E ciphertext \in {EncryptClick(publicKeyPEM, encryptText, env)} :
         /\ calls' = ciphertext.calls
         /\ IF ciphertext.result.ok
            THEN /\ encryptedText' = ciphertext.result.value
                 /\ toast' = Toast("Encryption successful")
                 /\ console' = ciphertext.console
            ELSE /\ UNCHANGED encryptedText
                 /\ \E c \in {Caught(ciphertext, "Encryption failed:", "Encryption Error",
                                     <<"Encryption", "error">>)} :
                       toast' = c.toast /\ console' = c.console
    /\ UNCHANGED <<keySize, publicKeyPEM, privateKeyPEM, encryptText, decryptText,
                   decryptedText, generated, arg, ret, inflight>>

\* importPrivateKey, then decryptWithPrivateKey with the key it returned.
DecryptClick(pem, text, env) ==
    LET privateKey == importPrivateKey(pem, env)
    IN Then(privateKey, decryptWithPrivateKey(privateKey.result.value, text, env))

handleDecrypt(env) ==
    /\ \E decrypted \in {DecryptClick(privateKeyPEM, decryptText, env)} :
         /\ calls' = decrypted.calls
         /\ IF decrypted.result.ok
            THEN /\ decryptedText' = decrypted.result.value
                 /\ toast' = Toast("Decryption successful")
                 /\ console' = decrypted.console
            ELSE /\ UNCHANGED decryptedText
                 /\ \E c \in {Caught(decrypted, "Decryption failed:", "Decryption Error",
                                     <<"Decryption", "error">>)} :
                       toast' = c.toast /\ console' = c.console
    /\ UNCHANGED <<keySize, publicKeyPEM, privateKeyPEM, encryptText, encryptedText,
                   decryptText, generated, arg, ret, inflight>>

\* What the user types into "Text to Encrypt": plain text, text of several
\* bytes per character, an emoji, and text that starts with U+FEFF.
FormMessages == {<<65>>, <<65, 233, 8364>>, <<55357, 56832>>, <<BOM, 65>>}

\* The session of the form: keys come from Generate Keys only, the ciphertext
\* to decrypt is the one copied from "Encrypted Text", and the provider fails,
\* if at all, in generating a pair.
Init ==
    /\ FormInit
    /\ arg = None
    /\ ret = None

Next ==
    \/ \E value \in KeySizes : setKeySize(value)
    \/ \E env \in HandlerEnvs({"generateKey"}) : handleGenerateKeys(env)
    \/ \E value \in FormMessages : setEncryptText(value)
    \/ handleEncrypt(Calm)
    \/ setDecryptText(encryptedText)
    \/ handleDecrypt(Calm)

Spec == Init /\ [][Next]_vars

\* C3: with the keys of one generated pair in the key fields and a text within
\* the budget, Encrypt followed by Decrypt of the text Encrypt produced shows
\* exactly the text that was encrypted.
C3_RoundTrip ==
    (/\ toast # None
     /\ toast.title = "Decryption successful"
     /\ generated # <<>>
     /\ Len(TextEncode(encryptText))
            <= maxMessageLength(generated[Len(generated)].publicKey.algorithm)
     /\ decryptText = encryptedText
     /\ encryptedText = arrayBufferToBase64(
            <<generated[Len(generated)].publicKey.id>> \o TextEncode(encryptText)))
        => decryptedText = encryptText

(***************************************************************************)
(* SpecImport: importPublicKey and importPrivateKey on texts of every make *)
(***************************************************************************)
NotAPem == <<"n","o","t"," ","a"," ","p","e","m">>

CERTIFICATE == <<"C","E","R","T","I","F","I","C","A","T","E">>

\* The pair whose keys the texts carry.
SamplePair == generateKey(2048, 1, Calm).value

SampleDer(format) ==
    exportKey(format, IF format = "spki" THEN SamplePair.publicKey ELSE SamplePair.privateKey)

NoLabel == <<>>

\* The texts handed to the import functions, each with the label and the
\* structure it was made from (NoLabel where it has no delimiters): every label
\* around every structure, a body without delimiters, a body with Windows line
\* endings, a body with a character outside the alphabet, words, and nothing.
ImportSamples ==
    {[label |-> l, format |-> f, text |-> toPEM(l, SampleDer(f))] :
        l \in {PUBLIC_KEY, PRIVATE_KEY, CERTIFICATE}, f \in {"spki", "pkcs8"}}
    \cup {[label |-> NoLabel, format |-> f, text |-> arrayBufferToBase64(SampleDer(f))] :
            f \in {"spki", "pkcs8"}}
    \cup {[label |-> PUBLIC_KEY, format |-> "spki",
           text |-> ToCRLF(toPEM(PUBLIC_KEY, SampleDer("spki")))],
          [label |-> PRIVATE_KEY, format |-> "pkcs8",
           text |-> Delimiter(BEGIN, PRIVATE_KEY) \o <<"\n", "M", "!", "A", "=", "\n">>
                        \o Delimiter(END, PRIVATE_KEY)],
          [label |-> NoLabel, format |-> "none", text |-> NotAPem],
          [label |-> NoLabel, format |-> "none", text |-> <<>>]}

InitImport ==
    /\ FormInit
    /\ arg \in [sample : ImportSamples, env : HandlerEnvs({"importKey"})]
    /\ ret = None

CallImportPublic ==
    /\ ret = None
    /\ ret' = [kind |-> PUBLIC_KEY, outcome |-> importPublicKey(arg.sample.text, arg.env)]
    /\ UNCHANGED <<arg, formVars>>

CallImportPrivate ==
    /\ ret = None
    /\ ret' = [kind |-> PRIVATE_KEY, outcome |-> importPrivateKey(arg.sample.text, arg.env)]
    /\ UNCHANGED <<arg, formVars>>

NextImport == CallImportPublic \/ CallImportPrivate

SpecImport == InitImport /\ [][NextImport]_vars

\* Whether `text` has a match of /-----<word> [^-]+-----/.
HasDelimiter(text, word) ==
    \E i \in 1..Len(text) : MatchLen(text, i, Dashes \o word \o <<" ">>) > 0

\* C6: a text without BEGIN and END delimiters fails with InvalidPEMError
\* before the provider is asked to import anything, also when the text without
\* its whitespace is decodable base64.
C6_NoDelimitersRejected ==
    (/\ ret # None
     /\ ~HasDelimiter(arg.sample.text, BEGIN)
     /\ ~HasDelimiter(arg.sample.text, END))
        => /\ ~ret.outcome.result.ok
           /\ ret.outcome.result.error.name = "InvalidPEMError"
           /\ ret.outcome.calls = <<>>

\* C10: an import accepts a text only when its label is the one of the key
\* kind: importPublicKey rejects every label but PUBLIC KEY, importPrivateKey
\* every label but PRIVATE KEY, whatever the body holds.
C10_LabelMatchesKind ==
    (/\ ret # None
     /\ arg.sample.label # NoLabel
     /\ arg.sample.label # ret.kind)
        => ~ret.outcome.result.ok

(***************************************************************************)
(* SpecDecrypt: a private key and a ciphertext are pasted into the form    *)
(* and Decrypt is clicked                                                  *)
(***************************************************************************)
\* The pair the pasted texts are not made for.
OtherPair == generateKey(2048, 2, Calm).value

Corrupted == <<"!", "!", "!", "!">>

PrivateTexts ==
    { exportPrivateKeyToPEM(SamplePair.privateKey),
      exportPrivateKeyToPEM(OtherPair.privateKey),
      exportPublicKeyToPEM(SamplePair.publicKey),
      NotAPem,
      Corrupted }

\* What the provider's decrypt finds in the pasted ciphertexts: text of one,
\* two and three bytes per character, no text, a byte that is no UTF-8, and a
\* sequence of three bytes cut after two.
Payloads == {<<65, 195, 169, 226, 130, 172>>, <<>>, <<255>>, <<226, 130>>}

CipherTexts ==
    {arrayBufferToBase64(encrypt(SamplePair.publicKey, data, Calm).value) :
        data \in Payloads}
    \cup {Corrupted}

NextDecrypt ==
    \/ \E value \in PrivateTexts : setPrivateKeyPEM(value)
    \/ \E value \in CipherTexts : setDecryptText(value)
    \/ \E env \in HandlerEnvs({"importKey", "decrypt"}) : handleDecrypt(env)

SpecDecrypt == Init /\ [][NextDecrypt]_vars

\* C4: every failure of Decrypt, whatever its cause (a private key text that
\* cannot be unframed or imported, a ciphertext that is no base64, a failure of
\* the provider, a ciphertext of another pair), is shown with the one
\* decryption-failed message.
C4_OneOpaqueMessage ==
    (toast # None /\ toast.variant = "destructive")
        => toast.description = DecryptionFailedMessage

\* Whether the bytes are well-formed UTF-8: decoding replaces nothing.
IsValidUtf8(bytes) == TextEncode(Utf8Decode(bytes, 1, 0, 0, 0, 128, 191)) = bytes

\* C8: when the bytes the provider's decrypt returned are not valid UTF-8 the
\* decryption fails; no text is shown for such bytes.
C8_InvalidUtf8Rejected ==
    (/\ toast # None
     /\ calls # <<>>
     /\ calls[Len(calls)].op = "decrypt"
     /\ calls[Len(calls)].result.ok
     /\ ~IsValidUtf8(calls[Len(calls)].result.value))
        => /\ toast.variant = "destructive"
           /\ decryptedText # TextDecode(calls[Len(calls)].result.value)

(***************************************************************************)
(* SpecGenerate: Generate Keys clicked again while earlier clicks are      *)
(* still awaiting the provider; the key fields are not edited by hand      *)
(***************************************************************************)
MaxGenerates == 2

\* The locals of one call of handleGenerateKeys, inside generateRSAKeyPair:
\* the await it stands at, the size it was called with, and what it holds.
Task(pc, size, keyPair, pem) ==
    [pc |-> pc, size |-> size, keyPair |-> keyPair, publicKeyPEM |-> pem]

\* The pairs that are held by a call in flight or were returned.
LiveIds ==
    {generated[k].publicKey.id : k \in 1..Len(generated)}
    \cup {inflight[k].keyPair.publicKey.id :
            k \in {j \in 1..Len(inflight) : inflight[j].pc # "generateKey"}}

\* The provider makes a pair no live pair equals.
FreshId == Min(1..(Cardinality(LiveIds) + 1) \ LiveIds)

Without(tasks, i) == SubSeq(tasks, 1, i - 1) \o SubSeq(tasks, i + 1, Len(tasks))

\* The click: handleGenerateKeys runs up to the await of
\* crypto.subtle.generateKey, with the key size selected at that moment.
StartGenerate ==
    /\ Len(inflight) + Len(generated) < MaxGenerates
    /\ inflight' = Append(inflight, Task("generateKey", parseInt(keySize), None, <<>>))
    /\ UNCHANGED <<keySize, publicKeyPEM, privateKeyPEM, encryptText, encryptedText,
                   decryptText, decryptedText, toast, console, calls, generated,
                   arg, ret>>

\* A provider call of task i was rejected: generateRSAKeyPair has no catch, so
\* the catch block of handleGenerateKeys runs, and the call is over.
GenerateFailed(i, made, error) ==
    /\ inflight' = Without(inflight, i)
    /\ calls' = made
    /\ \E c \in {Caught(Outcome(error, made, <<>>), "Key generation failed:",
                        "Key Generation Error", <<"Error", "generating", "keys">>)} :
          toast' = c.toast /\ console' = c.console
    /\ UNCHANGED <<keySize, publicKeyPEM, privateKeyPEM, encryptText, encryptedText,
                   decryptText, decryptedText, generated, arg, ret>>

\* A task moves on to its next await; the form is not touched.
TaskMoves(i, task) ==
    /\ inflight' = [inflight EXCEPT ![i] = task]
    /\ UNCHANGED <<keySize, publicKeyPEM, privateKeyPEM, encryptText, encryptedText,
                   decryptText, decryptedText, toast, console, calls, generated,
                   arg, ret>>

\* crypto.subtle.generateKey of task i settles.
GenerateKeySettles(i, env) ==
    /\ inflight[i].pc = "generateKey"
    /\ \E keyPair \in {generateKey(inflight[i].size, FreshId, env)} :
          IF keyPair.ok
          THEN TaskMoves(i, Task("exportPublic", inflight[i].size, keyPair.value, <<>>))
          ELSE GenerateFailed(i, <<Call("generateKey", keyPair)>>, keyPair)

\* The rejection of crypto.subtle.exportKey.
ExportError(env) == Throw([name |-> "OperationError", message |-> env.message])

\* exportPublicKeyToPEM of task i settles, and with it the form shows the
\* public key at once: setPublicKeyPEM is called before the private key is
\* exported.
ExportPublicSettlesEager(i, env) ==
    /\ inflight[i].pc = "exportPublic"
    /\ IF env.fails = "exportKey"
       THEN GenerateFailed(i, <<Call("generateKey", Ok(inflight[i].keyPair))>>,
                           ExportError(env))
       ELSE /\ inflight' = [inflight EXCEPT ![i] =
                    Task("exportPrivate", inflight[i].size, inflight[i].keyPair,
                         exportPublicKeyToPEM(inflight[i].keyPair.publicKey))]
            /\ publicKeyPEM' = exportPublicKeyToPEM(inflight[i].keyPair.publicKey)
            /\ UNCHANGED <<keySize, privateKeyPEM, encryptText, encryptedText,
                           decryptText, decryptedText, toast, console, calls,
                           generated, arg, ret>>

\* exportPublicKeyToPEM of task i settles: the text is a local of
\* generateRSAKeyPair.
ExportPublicSettles(i, env) ==
    /\ inflight[i].pc = "exportPublic"
    /\ IF env.fails = "exportKey"
       THEN GenerateFailed(i, <<Call("generateKey", Ok(inflight[i].keyPair))>>,
                           ExportError(env))
       ELSE TaskMoves(i, Task("exportPrivate", inflight[i].size, inflight[i].keyPair,
                              exportPublicKeyToPEM(inflight[i].keyPair.publicKey)))

\* What generateRSAKeyPair returns from the locals of a task.
Returned(task, privatePEM) ==
    [publicKey |-> task.keyPair.publicKey,
     privateKey |-> task.keyPair.privateKey,
     publicKeyPEM |-> task.publicKeyPEM,
     privateKeyPEM |-> privatePEM]

\* exportPrivateKeyToPEM of task i settles: generateRSAKeyPair returns and
\* handleGenerateKeys runs to its end, setting both key fields in one turn of
\* the event loop.
ExportPrivateSettles(i, env) ==
    /\ inflight[i].pc = "exportPrivate"
    /\ IF env.fails = "exportKey"
       THEN GenerateFailed(i, <<Call("generateKey", Ok(inflight[i].keyPair))>>,
                           ExportError(env))
       ELSE \E keys \in {Returned(inflight[i],
                                  exportPrivateKeyToPEM(inflight[i].keyPair.privateKey))} :
              /\ inflight' = Without(inflight, i)
              /\ generated' = Append(generated, keys)
              /\ publicKeyPEM' = keys.publicKeyPEM
              /\ privateKeyPEM' = keys.privateKeyPEM
              /\ toast' = Toast("Keys generated successfully")
              /\ console' = <<>>
              /\ calls' = <<Call("generateKey", Ok(inflight[i].keyPair))>>
              /\ UNCHANGED <<keySize, encryptText, encryptedText, decryptText,
                             decryptedText, arg, ret>>

NextGenerate ==
    \/ \E value \in KeySizes : setKeySize(value)
    \/ StartGenerate
    \/ \E i \in 1..Len(inflight), env \in HandlerEnvs({"generateKey"}) :
          GenerateKeySettles(i, env)
    \/ \E i \in 1..Len(inflight), env \in HandlerEnvs({"exportKey"}) :
          ExportPublicSettles(i, env)
    \/ \E i \in 1..Len(inflight), env \in HandlerEnvs({"exportKey"}) :
          ExportPrivateSettles(i, env)

SpecGenerate == Init /\ [][NextGenerate]_vars

\* C11: however the calls of Generate Keys interleave, a second one started
\* while the first awaits the provider included, the two key fields are both
\* empty or both hold the texts of one and the same result of
\* generateRSAKeyPair; a generate that fails leaves both fields as they were.
C11_FieldsFromOneResult ==
    /\ [](\/ publicKeyPEM = <<>> /\ privateKeyPEM = <<>>
          \/ \E k \in 1..Len(generated) :
                /\ publicKeyPEM = generated[k].publicKeyPEM
                /\ privateKeyPEM = generated[k].privateKeyPEM)
    /\ [][(Len(inflight') < Len(inflight) /\ generated' = generated)
            => UNCHANGED <<publicKeyPEM, privateKeyPEM>>]_vars

\* Two calls were in flight together and the one whose pair was made second
\* returned first: the fields hold the texts of the one that returned last.
C11_Witness ==
    /\ Len(generated) = 2
    /\ inflight = <<>>
    /\ generated[1].publicKey.id = 2
    /\ generated[2].publicKey.id = 1
    /\ publicKeyPEM = generated[2].publicKeyPEM
    /\ privateKeyPEM = generated[2].privateKeyPEM
    /\ publicKeyPEM # generated[1].publicKeyPEM

====
